---------------------------- MODULE Spec2Model ----------------------------
(***************************************************************************)
(* A model of the two pipelines of the dashboard:                          *)
(*   - tabs/utm_bitly.py : build_utm_url and the batch link-creation flow  *)
(*   - tabs/bitly_stats.py : the report pipeline (group resolution,        *)
(*     paginated listing, pre-fetch filtering, click fetch, sorting)       *)
(*                                                                         *)
(* Python strings are sequences of one-character strings, so that          *)
(* substring tests, splitting, quoting and ordering are computed the way   *)
(* the code computes them.                                                 *)
(***************************************************************************)
EXTENDS Integers, Sequences, FiniteSets, TLC

(***************************************************************************)
(* Bounds of the model.                                                    *)
(***************************************************************************)
\* longest query string (in parameters) of a generated URL
MaxPairs == 2
\* most link records of a richly varied listing
MaxLinks == 3
\* most full pages of a long listing
MaxPages == 2
\* most click-count fetches answered with a non-success status in one run
MaxClickFail == 2
\* most input lines of one batch
MaxBatch == 3

(***************************************************************************)
(* The state: the inputs and results of build_utm_url, the batch           *)
(* link-creation flow, and the report pipeline.                            *)
(***************************************************************************)
VARIABLES
  base_url,    \* the URL handed to build_utm_url
  inPairs,     \* the (name, value) fields its query string was written from
  tracking,    \* the four tracking values
  utmPc,       \* "input", "once", "twice" or "raised"
  out1,        \* build_utm_url(base_url, tracking)
  out2         \* build_utm_url(out1, tracking)

utmVars == <<base_url, inPairs, tracking, utmPc, out1, out2>>

VARIABLES
  urls_input,   \* the pasted lines
  b_tracking,   \* the four tracking values of the form
  batchPc,      \* "form", "loop", "warned", "done" or "crashed"
  urls,         \* the stripped non-blank lines
  bi,           \* the loop index i, 1-based
  results,      \* the result entries appended so far
  createCalls,  \* the long URLs handed to the creation call, in order
  titleCalls,   \* (entry index, bitlink id) of every titling call, in order
  titleFailed   \* the entry indexes whose titling call failed

batchVars ==
  <<urls_input, b_tracking, batchPc, urls, bi, results, createCalls,
    titleCalls, titleFailed>>

VARIABLES
  srvLinks,     \* the link records the service holds for the group, in order
  clickValues,  \* the click totals the service may answer with
  failBudget,   \* how many click fetches the service may refuse in this run
  prefilter,    \* the three filter texts of the form
  reportPc,     \* "form", "listing", "loop", "done" or "crashed"
  group_guid,   \* render's group_guid
  page,         \* get_all_bitlinks' page
  bitlinks,     \* get_all_bitlinks' bitlinks
  links,        \* render's links
  idx,          \* the position of the for loop in links, 1-based
  rows,         \* render's rows
  df,           \* the sorted frame handed to st.dataframe, <<>> when none
  errors,       \* the st.error messages, in order
  warnings,     \* the st.warning messages, in order
  groupCalls,   \* the number of GET /v4/groups calls
  listCalls,    \* (group guid, page) of every listing call, in order
  clickCalls,   \* the bitlink id of every click-summary call, in order
  clickFailed,  \* the bitlink ids whose click-summary call failed
  groupOutcome, \* how the groups call ended, "none" before it
  groupsSeen,   \* the groups a 200 answer listed
  listOutcome   \* how get_all_bitlinks ended, "none" before that

reportVars ==
  <<srvLinks, clickValues, failBudget, prefilter, reportPc, group_guid, page,
    bitlinks, links, idx, rows, df, errors, warnings, groupCalls, listCalls,
    clickCalls, clickFailed, groupOutcome, groupsSeen, listOutcome>>

vars == <<utmVars, batchVars, reportVars>>

(***************************************************************************)
(* Python str operations                                                   *)
(***************************************************************************)
\* ord(c) for the characters the model's inputs are made of
CodePoint(c) ==
  CASE c = " " -> 32 [] c = "#" -> 35 [] c = "%" -> 37 [] c = "&" -> 38
    [] c = "+" -> 43 [] c = "-" -> 45 [] c = "." -> 46 [] c = "/" -> 47
    [] c = "0" -> 48 [] c = "1" -> 49 [] c = "2" -> 50 [] c = "3" -> 51
    [] c = "4" -> 52 [] c = "5" -> 53 [] c = "6" -> 54 [] c = "7" -> 55
    [] c = "8" -> 56 [] c = "9" -> 57
    [] c = ":" -> 58 [] c = "=" -> 61 [] c = "?" -> 63
    [] c = "A" -> 65 [] c = "B" -> 66 [] c = "C" -> 67 [] c = "D" -> 68
    [] c = "E" -> 69 [] c = "F" -> 70 [] c = "[" -> 91 [] c = "]" -> 93
    [] c = "_" -> 95
    [] c = "a" -> 97 [] c = "b" -> 98 [] c = "c" -> 99 [] c = "d" -> 100
    [] c = "e" -> 101 [] c = "f" -> 102 [] c = "g" -> 103 [] c = "h" -> 104
    [] c = "i" -> 105 [] c = "k" -> 107 [] c = "l" -> 108 [] c = "m" -> 109
    [] c = "n" -> 110 [] c = "o" -> 111 [] c = "p" -> 112 [] c = "r" -> 114
    [] c = "s" -> 115 [] c = "t" -> 116 [] c = "u" -> 117 [] c = "x" -> 120
    [] c = "y" -> 121 [] c = "z" -> 122

Alphabet ==
  {" ", "#", "%", "&", "+", "-", ".", "/", "0", "1", "2", "3", "4", "5", "6",
   "7", "8", "9", ":", "=", "?", "A", "B", "C", "D", "E", "F", "[", "]", "_", "a", "b", "c", "d", "e",
   "f", "g", "h", "i", "k", "l", "m", "n", "o", "p", "r", "s", "t", "u", "x",
   "y", "z"}

\* s[i:] with a 1-based i
From(s, i) == SubSeq(s, i, Len(s))

\* s.startswith(p)
StartsWith(s, p) == Len(p) <= Len(s) /\ SubSeq(s, 1, Len(p)) = p

\* s.find(c, start): the first position >= start holding c, 0 when none
RECURSIVE Find(_, _, _)
Find(s, c, start) ==
  IF start > Len(s) THEN 0
  ELSE IF s[start] = c THEN start
  ELSE Find(s, c, start + 1)

\* c in s
HasChar(s, c) == Find(s, c, 1) # 0

\* needle in hay: left-to-right scan for the first match
RECURSIVE FindSub(_, _, _)
FindSub(hay, needle, start) ==
  IF start + Len(needle) - 1 > Len(hay) THEN 0
  ELSE IF SubSeq(hay, start, start + Len(needle) - 1) = needle THEN start
  ELSE FindSub(hay, needle, start + 1)

Contains(hay, needle) == FindSub(hay, needle, 1) # 0

\* s.split(c)
RECURSIVE Split(_, _)
Split(s, c) ==
  LET i == Find(s, c, 1) IN
  IF i = 0 THEN <<s>>
  ELSE <<SubSeq(s, 1, i - 1)>> \o Split(From(s, i + 1), c)

\* s.split(c, 1)
Split1(s, c) ==
  LET i == Find(s, c, 1) IN
  IF i = 0 THEN <<s>> ELSE <<SubSeq(s, 1, i - 1), From(s, i + 1)>>

\* sep.join(parts)
RECURSIVE Join(_, _)
Join(parts, sep) ==
  IF parts = <<>> THEN <<>>
  ELSE IF Len(parts) = 1 THEN parts[1]
  ELSE parts[1] \o sep \o Join(Tail(parts), sep)

\* s.replace(old, new) for a one-character old
RECURSIVE ReplaceChar(_, _, _)
ReplaceChar(s, old, new) ==
  IF s = <<>> THEN <<>>
  ELSE (IF Head(s) = old THEN new ELSE <<Head(s)>>)
         \o ReplaceChar(Tail(s), old, new)

\* s.lstrip(" ")
RECURSIVE LStrip(_)
LStrip(s) == IF s # <<>> /\ Head(s) = " " THEN LStrip(Tail(s)) ELSE s

\* Python's s < t on str: by code point, a proper prefix first
RECURSIVE StrLess(_, _)
StrLess(s, t) ==
  IF t = <<>> THEN FALSE
  ELSE IF s = <<>> THEN TRUE
  ELSE IF Head(s) = Head(t) THEN StrLess(Tail(s), Tail(t))
  ELSE CodePoint(Head(s)) < CodePoint(Head(t))

(***************************************************************************)
(* urllib.parse, as the two tabs call it                                   *)
(***************************************************************************)
Letters ==
  {"a", "b", "c", "d", "e", "f", "g", "h", "i", "k", "l", "m", "n", "o", "p",
   "r", "s", "t", "u", "x", "y", "z", "A", "B", "C", "D", "E", "F"}
Digits == {"0", "1", "2", "3", "4", "5", "6", "7", "8", "9"}
scheme_chars == Letters \cup Digits \cup {"+", "-", "."}
\* quote()'s always-safe characters
AlwaysSafe == Letters \cup Digits \cup {"_", ".", "-"}

HexDigits == <<"0", "1", "2", "3", "4", "5", "6", "7", "8", "9",
               "A", "B", "C", "D", "E", "F">>

\* the value of a hexadecimal digit, -1 for any other character
HexVal(c) ==
  CASE c = "0" -> 0 [] c = "1" -> 1 [] c = "2" -> 2 [] c = "3" -> 3
    [] c = "4" -> 4 [] c = "5" -> 5 [] c = "6" -> 6 [] c = "7" -> 7
    [] c = "8" -> 8 [] c = "9" -> 9 [] c = "A" \/ c = "a" -> 10 [] c = "B" \/ c = "b" -> 11
    [] c = "C" \/ c = "c" -> 12 [] c = "D" \/ c = "d" -> 13
    [] c = "E" \/ c = "e" -> 14 [] c = "F" \/ c = "f" -> 15
    [] OTHER -> -1

\* quote_plus(s): safe characters kept, a space as "+", the rest as %XX
RECURSIVE quote_plus(_)
quote_plus(s) ==
  IF s = <<>> THEN <<>>
  ELSE LET c == Head(s) IN
       (IF c \in AlwaysSafe THEN <<c>>
        ELSE IF c = " " THEN <<"+">>
        ELSE <<"%", HexDigits[(CodePoint(c) \div 16) + 1],
                    HexDigits[(CodePoint(c) % 16) + 1]>>)
       \o quote_plus(Tail(s))

\* unquote(s): every %XX naming a character is replaced by it
RECURSIVE unquote(_)
unquote(s) ==
  IF s = <<>> THEN <<>>
  ELSE IF /\ Head(s) = "%"
          /\ Len(s) >= 3
          /\ HexVal(s[2]) >= 0
          /\ HexVal(s[3]) >= 0
          /\ \E c \in Alphabet : CodePoint(c) = 16 * HexVal(s[2]) + HexVal(s[3])
       THEN <<CHOOSE c \in Alphabet :
                 CodePoint(c) = 16 * HexVal(s[2]) + HexVal(s[3])>>
            \o unquote(From(s, 4))
       ELSE <<Head(s)>> \o unquote(Tail(s))

\* _splitnetloc(url, 2): the position of the first of "/", "?", "#" after the
\* leading "//", Len(url) + 1 when there is none
NetlocEnd(url) ==
  LET cands == {Find(url, c, 3) : c \in {"/", "?", "#"}} \ {0}
  IN IF cands = {} THEN Len(url) + 1
     ELSE CHOOSE d \in cands : \A e \in cands : d <= e

\* the schemes of uses_netloc that the model's URLs carry
uses_netloc == {<<>>, <<"h", "t", "t", "p">>, <<"h", "t", "t", "p", "s">>}

\* urlparse(url): ok is FALSE where urlsplit raises ValueError.  The model's
\* URLs hold no ";", so params is always empty.
urlparse(url0) ==
  LET url1 == LStrip(url0)
      i == Find(url1, ":", 1)
      hasScheme == /\ i > 1
                   /\ url1[1] \in Letters
                   /\ \A k \in 1..(i - 1) : url1[k] \in scheme_chars
      scheme == IF hasScheme THEN SubSeq(url1, 1, i - 1) ELSE <<>>
      url2 == IF hasScheme THEN From(url1, i + 1) ELSE url1
      hasNetloc == StartsWith(url2, <<"/", "/">>)
      d == NetlocEnd(url2)
      netloc == IF hasNetloc THEN SubSeq(url2, 3, d - 1) ELSE <<>>
      url3 == IF hasNetloc THEN From(url2, d) ELSE url2
      fr == Split1(url3, "#")
      url4 == fr[1]
      fragment == IF Len(fr) = 2 THEN fr[2] ELSE <<>>
      qu == Split1(url4, "?")
      path == qu[1]
      query == IF Len(qu) = 2 THEN qu[2] ELSE <<>>
  IN [ok |-> ~(HasChar(netloc, "[") /\ ~HasChar(netloc, "]"))
             /\ ~(HasChar(netloc, "]") /\ ~HasChar(netloc, "[")),
      scheme |-> scheme, netloc |-> netloc, path |-> path,
      query |-> query, fragment |-> fragment]

\* urlunparse(parsed)
urlunparse(p) ==
  LET url1 == IF \/ p.netloc # <<>>
                 \/ (/\ p.scheme # <<>>
                     /\ p.scheme \in uses_netloc
                     /\ ~StartsWith(p.path, <<"/", "/">>))
              THEN <<"/", "/">> \o p.netloc
                   \o (IF p.path # <<>> /\ Head(p.path) # "/"
                       THEN <<"/">> \o p.path ELSE p.path)
              ELSE p.path
      url2 == IF p.scheme # <<>> THEN p.scheme \o <<":">> \o url1 ELSE url1
      url3 == IF p.query # <<>> THEN url2 \o <<"?">> \o p.query ELSE url2
  IN IF p.fragment # <<>> THEN url3 \o <<"#">> \o p.fragment ELSE url3

\* parse_qsl(qs, keep_blank_values): the (name, value) pairs in order
RECURSIVE ParseFields(_, _)
ParseFields(fields, keep_blank_values) ==
  IF fields = <<>> THEN <<>>
  ELSE LET nv == Split1(Head(fields), "=")
           rest == ParseFields(Tail(fields), keep_blank_values)
           value == IF Len(nv) = 2 THEN nv[2] ELSE <<>>
       IN IF Head(fields) = <<>> THEN rest
          ELSE IF Len(nv) # 2 /\ ~keep_blank_values THEN rest
          ELSE IF value # <<>> \/ keep_blank_values
               THEN << <<unquote(ReplaceChar(nv[1], "+", <<" ">>)),
                         unquote(ReplaceChar(value, "+", <<" ">>))>> >> \o rest
               ELSE rest

parse_qsl(qs, keep_blank_values) ==
  IF qs = <<>> THEN <<>> ELSE ParseFields(Split(qs, "&"), keep_blank_values)

\* urlencode(items, doseq=True) for str values
RECURSIVE EncodeItems(_)
EncodeItems(items) ==
  IF items = <<>> THEN <<>>
  ELSE <<quote_plus(items[1][1]) \o <<"=">> \o quote_plus(items[1][2])>>
       \o EncodeItems(Tail(items))

urlencode(items) == Join(EncodeItems(items), <<"&">>)


(***************************************************************************)
(* tabs/utm_bitly.py : build_utm_url                                       *)
(***************************************************************************)
S_utm_source == <<"u", "t", "m", "_", "s", "o", "u", "r", "c", "e">>
S_utm_medium == <<"u", "t", "m", "_", "m", "e", "d", "i", "u", "m">>
S_utm_campaign == <<"u", "t", "m", "_", "c", "a", "m", "p", "a", "i", "g", "n">>
S_utm_term == <<"u", "t", "m", "_", "t", "e", "r", "m">>

\* a Python dict is an insertion-ordered sequence of (key, value) with distinct
\* keys; HasKey(d, k) is k in d
HasKey(d, k) == \E i \in 1..Len(d) : d[i][1] = k

\* d[k] = v appending at the end whether or not the key is there
DictSetAppends(d, k, v) == Append(d, <<k, v>>)

\* d[k] = v: the value is replaced where the key is, a new key goes last
DictSet(d, k, v) ==
  IF HasKey(d, k)
  THEN [i \in 1..Len(d) |-> IF d[i][1] = k THEN <<k, v>> ELSE d[i]]
  ELSE Append(d, <<k, v>>)

\* dict(pairs)
RECURSIVE DictFrom(_, _)
DictFrom(d, pairs) ==
  IF pairs = <<>> THEN d
  ELSE DictFrom(DictSet(d, pairs[1][1], pairs[1][2]), Tail(pairs))

dict(pairs) == DictFrom(<<>>, pairs)

\* the loop over utm_params: a non-empty value is set, in the fixed key order
RECURSIVE SetUtmParams(_, _)
SetUtmParams(d, utm_params) ==
  IF utm_params = <<>> THEN d
  ELSE SetUtmParams(
         IF utm_params[1][2] # <<>>
         THEN DictSet(d, utm_params[1][1], utm_params[1][2])
         ELSE d,
         Tail(utm_params))

\* build_utm_url(base_url, utm_source, utm_medium, utm_campaign, utm_term):
\* ok is FALSE where urlparse raises ValueError
build_utm_url(url, t) ==
  IF url = <<>> THEN [ok |-> TRUE, url |-> <<>>]
  ELSE LET parsed == urlparse(url)
           query_params == dict(parse_qsl(parsed.query, TRUE))
           utm_params == << <<S_utm_source, t.utm_source>>,
                            <<S_utm_medium, t.utm_medium>>,
                            <<S_utm_campaign, t.utm_campaign>>,
                            <<S_utm_term, t.utm_term>> >>
           new_query == urlencode(SetUtmParams(query_params, utm_params))
       IN IF ~parsed.ok THEN [ok |-> FALSE, url |-> <<>>]
          ELSE [ok |-> TRUE,
                url |-> urlunparse([parsed EXCEPT !.query = new_query])]

(***************************************************************************)
(* The inputs of build_utm_url: a base, a query of at most MaxPairs        *)
(* name=value fields, an optional fragment, and a tracking-parameter set.  *)
(***************************************************************************)
S_http_x == <<"h", "t", "t", "p", ":", "/", "/", "x">>
S_p == <<"/", "p">>

UrlBases == {S_http_x \o S_p, S_http_x, S_p, S_http_x \o <<"[">> \o S_p}
QueryNames == {<<"a">>, S_utm_source, S_utm_term}
QueryValues == {<<>>, <<"1">>, <<"2">>}
Fragments == {<<>>, <<"f">>}

\* every sequence over S of length at most n
SeqsUpTo(S, n) == UNION {[1..k -> S] : k \in 0..n}

PairLists == SeqsUpTo(QueryNames \X QueryValues, MaxPairs)

RECURSIVE RawFields(_)
RawFields(pairs) ==
  IF pairs = <<>> THEN <<>>
  ELSE <<pairs[1][1] \o <<"=">> \o pairs[1][2]>> \o RawFields(Tail(pairs))

\* the URL text of a base, a list of query fields and a fragment
MakeUrl(base, pairs, frag) ==
  base \o (IF pairs = <<>> THEN <<>> ELSE <<"?">> \o Join(RawFields(pairs), <<"&">>))
       \o (IF frag = <<>> THEN <<>> ELSE <<"#">> \o frag)

NoTracking ==
  [utm_source |-> <<>>, utm_medium |-> <<>>, utm_campaign |-> <<>>, utm_term |-> <<>>]

TrackingSets ==
  {NoTracking,
   [NoTracking EXCEPT !.utm_source = <<"1">>],
   [NoTracking EXCEPT !.utm_source = <<"2">>, !.utm_medium = <<"1">>],
   [NoTracking EXCEPT !.utm_campaign = <<"a", " ", "b">>, !.utm_term = <<"2">>]}

UtmNames == {S_utm_source, S_utm_medium, S_utm_campaign, S_utm_term}

UtmInit ==
  /\ inPairs \in PairLists
  /\ \E b \in UrlBases, f \in Fragments : base_url = MakeUrl(b, inPairs, f)
  /\ tracking \in TrackingSets
  /\ utmPc = "input"
  /\ out1 = <<>>
  /\ out2 = <<>>

\* the first application
Annotate ==
  /\ utmPc = "input"
  /\ LET r == build_utm_url(base_url, tracking) IN
       /\ utmPc' = IF r.ok THEN "once" ELSE "raised"
       /\ out1' = r.url
  /\ UNCHANGED <<base_url, inPairs, tracking, out2, batchVars, reportVars>>

\* the second application, to the result of the first
AnnotateAgain ==
  /\ utmPc = "once"
  /\ LET r == build_utm_url(out1, tracking) IN
       /\ utmPc' = IF r.ok THEN "twice" ELSE "raised"
       /\ out2' = r.url
  /\ UNCHANGED <<base_url, inPairs, tracking, out1, batchVars, reportVars>>

UtmNext == Annotate \/ AnnotateAgain

(***************************************************************************)
(* Properties of build_utm_url                                             *)
(***************************************************************************)
\* the fields of a pair list whose name is not a tracking-parameter name
RECURSIVE NonUtm(_)
NonUtm(pairs) ==
  IF pairs = <<>> THEN <<>>
  ELSE (IF pairs[1][1] \in UtmNames THEN <<>> ELSE <<pairs[1]>>)
       \o NonUtm(Tail(pairs))

\* the decoded query fields of the annotated URL
OutPairs == parse_qsl(urlparse(out1).query, TRUE)

\* C7: build_utm_url keeps every query parameter that is not a tracking
\* parameter: the same name/value pairs in the same relative order, blank
\* values and repeated names included.
C7_KeepsOtherParams ==
  utmPc \in {"once", "twice"} => NonUtm(OutPairs) = NonUtm(inPairs)

\* C8: build_utm_url is idempotent for a fixed tracking-parameter set: the
\* second application returns the URL the first returned.
C8_Idempotent == utmPc = "twice" => out2 = out1

\* C8 witness: applied twice to a URL that carries utm_source twice, neither
\* time with the value being set
C8_Witness ==
  /\ utmPc = "twice"
  /\ tracking.utm_source # <<>>
  /\ \E i, j \in 1..Len(inPairs) :
       /\ i < j
       /\ inPairs[i][1] = S_utm_source
       /\ inPairs[j][1] = S_utm_source
       /\ inPairs[i][2] # tracking.utm_source
       /\ inPairs[j][2] # tracking.utm_source
       /\ inPairs[i][2] # inPairs[j][2]

(***************************************************************************)
(* tabs/utm_bitly.py : the batch link-creation flow of render               *)
(*                                                                         *)
(* Remote answers are inputs: each call's outcome is chosen when the call  *)
(* is made.  Error messages and titles are opaque texts.                   *)
(***************************************************************************)
S_https == <<"h", "t", "t", "p", "s", ":", "/", "/">>
S_bitly == <<"b", "i", "t", ".", "l", "y", "/">>

\* s.replace(old, new)
RECURSIVE Replace(_, _, _)
Replace(s, old, new) ==
  IF s = <<>> THEN <<>>
  ELSE IF StartsWith(s, old) THEN new \o Replace(From(s, Len(old) + 1), old, new)
  ELSE <<Head(s)>> \o Replace(Tail(s), old, new)

\* s.strip() is non-empty
NonBlank(s) == \E i \in 1..Len(s) : s[i] # " "

\* s.strip()
RECURSIVE RStrip(_)
RStrip(s) ==
  IF s # <<>> /\ s[Len(s)] = " " THEN RStrip(SubSeq(s, 1, Len(s) - 1)) ELSE s

Strip(s) == RStrip(LStrip(s))

\* [u.strip() for u in urls_input.splitlines() if u.strip()]
RECURSIVE StrippedLines(_)
StrippedLines(lines) ==
  IF lines = <<>> THEN <<>>
  ELSE (IF NonBlank(Head(lines)) THEN <<Strip(Head(lines))>> ELSE <<>>)
       \o StrippedLines(Tail(lines))

\* the lines a user may paste: blank, well-formed, malformed
BatchLines ==
  {<<" ">>,
   S_http_x \o S_p,
   <<" ">> \o S_p \o <<"?", "a", "=", "1">>,
   S_http_x \o <<"[">> \o S_p}

\* the short link the service issues for the n-th creation call
ShortLink(n) == S_https \o S_bitly \o <<HexDigits[n + 1]>>

\* shorten_with_bitly's answers: a link, a success without a link, a
\* non-success status, an exception inside the try block
CreateOutcomes == {"link", "nolink", "status", "exception"}
\* update_bitly_title's answers
TitleOutcomes == {"ok", "status", "exception"}

\* shorten_with_bitly(long_url, domain) -> (short_url, err); None is <<>>/""
shorten_with_bitly(outcome, n) ==
  CASE outcome = "link" -> [short_url |-> ShortLink(n), err |-> ""]
    [] outcome = "nolink" -> [short_url |-> <<>>, err |-> ""]
    [] outcome = "status" -> [short_url |-> <<>>, err |-> "Bitly error"]
    [] outcome = "exception" -> [short_url |-> <<>>, err |-> "str(e)"]

\* update_bitly_title(bitlink, title) -> error text, None is ""
update_bitly_title(outcome) ==
  CASE outcome = "ok" -> ""
    [] outcome = "status" -> "Title update error"
    [] outcome = "exception" -> "Exception while setting title"

\* err or title_err
Or(a, b) == IF a # "" THEN a ELSE b

BatchInit ==
  /\ urls_input \in SeqsUpTo(BatchLines, MaxBatch)
  /\ b_tracking \in {NoTracking, [NoTracking EXCEPT !.utm_source = <<"1">>]}
  /\ batchPc = "form"
  /\ urls = <<>>
  /\ bi = 1
  /\ results = <<>>
  /\ createCalls = <<>>
  /\ titleCalls = <<>>
  /\ titleFailed = {}

\* the "Process URLs" button: the lines are stripped and blank ones dropped
ProcessUrls ==
  /\ batchPc = "form"
  /\ urls' = StrippedLines(urls_input)
  /\ batchPc' = IF urls' = <<>> THEN "warned" ELSE "loop"
  /\ UNCHANGED <<urls_input, b_tracking, bi, results, createCalls, titleCalls,
                 titleFailed, utmVars, reportVars>>

\* one iteration of the loop over urls
ProcessUrl ==
  /\ batchPc = "loop"
  /\ LET url == urls[bi]
         parsed == urlparse(url)
         built == build_utm_url(url, b_tracking)
     IN IF ~parsed.ok \/ ~built.ok
        THEN \* urlparse raises ValueError: nothing catches it
             /\ batchPc' = "crashed"
             /\ UNCHANGED <<bi, results, createCalls, titleCalls, titleFailed>>
        ELSE \E co \in CreateOutcomes, to \in TitleOutcomes :
               LET r == shorten_with_bitly(co, Len(createCalls))
                   titled == r.short_url # <<>>
                   title_err == IF titled THEN update_bitly_title(to) ELSE ""
               IN /\ createCalls' = Append(createCalls, built.url)
                  /\ titleCalls' =
                       IF titled
                       THEN Append(titleCalls,
                                   <<bi, Replace(r.short_url, S_https, <<>>)>>)
                       ELSE titleCalls
                  /\ titleFailed' =
                       IF titled /\ title_err # ""
                       THEN titleFailed \cup {bi} ELSE titleFailed
                  /\ results' =
                       Append(results,
                              [original |-> url, utm_url |-> built.url,
                               short_url |-> r.short_url,
                               error |-> Or(r.err, title_err)])
                  /\ bi' = bi + 1
                  /\ batchPc' = IF bi = Len(urls) THEN "done" ELSE "loop"
  /\ UNCHANGED <<urls_input, b_tracking, urls, utmVars, reportVars>>

BatchNext == ProcessUrls \/ ProcessUrl

\* C6: a batch of n non-blank inputs ends with exactly n result entries in
\* input order whatever failed; titling was attempted only for the entries
\* that got a short URL; an entry created but not titled carries its short
\* URL and a non-empty error.
C6_BatchCompletes ==
  batchPc \in {"done", "crashed"} =>
    /\ Len(results) = Len(urls)
    /\ \A i \in 1..Len(results) : results[i].original = urls[i]
    /\ \A k \in 1..Len(titleCalls) : results[titleCalls[k][1]].short_url # <<>>
    /\ \A i \in titleFailed :
         results[i].short_url # <<>> /\ results[i].error # ""

(***************************************************************************)
(* tabs/bitly_stats.py : the Bitly API helpers and the report pipeline     *)
(*                                                                         *)
(* srvLinks is what the service lists for the time window chosen in the    *)
(* form (created_after only narrows what the service returns).             *)
(***************************************************************************)
\* the page size of get_all_bitlinks
size == 50

S_foo == <<"f", "o", "o">>
S_bar == <<"b", "a", "r">>
S_eq == <<"=">>

\* the decimal text of a natural number
RECURSIVE Decimal(_)
Decimal(n) ==
  IF n < 10 THEN <<HexDigits[n + 1]>>
  ELSE Decimal(n \div 10) \o <<HexDigits[(n % 10) + 1]>>

\* the target URLs of the link records of a short listing
ReportUrls ==
  {\* utm_source=foo, utm_medium=m
   S_http_x \o S_p \o <<"?">> \o S_utm_source \o S_eq \o S_foo
            \o <<"&">> \o S_utm_medium \o S_eq \o <<"m">>,
   \* utm_source=bar, utm_campaign=c
   S_http_x \o S_p \o <<"?">> \o S_utm_source \o S_eq \o S_bar
            \o <<"&">> \o S_utm_campaign \o S_eq \o <<"c">>,
   \* no query at all
   S_http_x \o S_p,
   \* a parameter named ref_utm_source, and none named utm_source
   S_http_x \o S_p \o <<"?", "r", "e", "f", "_">> \o S_utm_source \o S_eq \o S_foo}

\* the link record the service lists at position n with target URL u
LinkRecord(n, u) ==
  [link |-> S_https \o S_bitly \o Decimal(n),
   long_url |-> u,
   title |-> IF n % 2 = 0 THEN "" ELSE "T"]

\* the filter texts a user may type
FilterSets ==
  LET none == [source |-> <<>>, medium |-> <<>>, campaign |-> <<>>] IN
  {none,
   [none EXCEPT !.source = S_foo],
   [none EXCEPT !.source = S_bar],
   [none EXCEPT !.medium = <<"m">>],
   [none EXCEPT !.campaign = <<"c">>],
   [none EXCEPT !.source = S_foo, !.medium = <<"m">>]}

\* the answers of GET /v4/groups: the guids of the account's groups
GroupAnswers == {<<>>, <<"g1">>, <<"g2", "g1">>}

\* the outcomes of one remote call: a 200 answer, another status, no answer
CallOutcomes == {"ok", "status", "exception"}

\* the lengths of a long listing: around every multiple of the page size
LongLengths ==
  {n \in 0..(MaxPages * size + 1) : (n + 1) % size \in {0, 1, 2}}

\* the items of page p (1-based) of the listing
ServerPage(listing, p) ==
  SubSeq(listing, (p - 1) * size + 1,
         IF p * size < Len(listing) THEN p * size ELSE Len(listing))

\* parse_qs(query).get(name, [""])[0]
RECURSIVE FirstValue(_, _)
FirstValue(pairs, name) ==
  IF pairs = <<>> THEN <<>>
  ELSE IF pairs[1][1] = name THEN pairs[1][2]
  ELSE FirstValue(Tail(pairs), name)

\* a filter tested against the decoded value of the parameter
FilterRejectsByValue(name, text, long_url) ==
  /\ text # <<>>
  /\ LET query == parse_qsl(urlparse(long_url).query, FALSE) IN
       ~(HasKey(query, name) /\ Contains(FirstValue(query, name), text))

\* the pre-fetch test of one filter: f"{name}={text}" not in long_url
FilterRejects(name, text, long_url) ==
  text # <<>> /\ ~Contains(long_url, name \o S_eq \o text)

\* the record is skipped by one of the three pre-fetch filters
Skipped(f, long_url) ==
  \/ FilterRejects(S_utm_source, f.source, long_url)
  \/ FilterRejects(S_utm_medium, f.medium, long_url)
  \/ FilterRejects(S_utm_campaign, f.campaign, long_url)

\* parse_utm_params(long_url)
parse_utm_params(long_url) ==
  LET query == parse_qsl(urlparse(long_url).query, FALSE) IN
  [utm_source |-> FirstValue(query, S_utm_source),
   utm_medium |-> FirstValue(query, S_utm_medium),
   utm_campaign |-> FirstValue(query, S_utm_campaign)]

\* the order of the sort with the clicks ascending like the other columns
RowBeforeAllAscending(a, b) ==
  IF a.utm_source # b.utm_source THEN StrLess(a.utm_source, b.utm_source)
  ELSE IF a.utm_medium # b.utm_medium THEN StrLess(a.utm_medium, b.utm_medium)
  ELSE IF a.utm_campaign # b.utm_campaign
       THEN StrLess(a.utm_campaign, b.utm_campaign)
  ELSE a.clicks < b.clicks

\* the order of sort_values(["utm_source", "utm_medium", "utm_campaign",
\* "Clicks"], ascending=[True, True, True, False]): a sorts strictly before b
RowBefore(a, b) ==
  IF a.utm_source # b.utm_source THEN StrLess(a.utm_source, b.utm_source)
  ELSE IF a.utm_medium # b.utm_medium THEN StrLess(a.utm_medium, b.utm_medium)
  ELSE IF a.utm_campaign # b.utm_campaign
       THEN StrLess(a.utm_campaign, b.utm_campaign)
  ELSE a.clicks > b.clicks

\* a row put into a sorted frame behind every row that does not sort after it
RECURSIVE InsertRow(_, _)
InsertRow(sorted, row) ==
  IF sorted = <<>> THEN <<row>>
  ELSE IF RowBefore(row, Head(sorted)) THEN <<row>> \o sorted
  ELSE <<Head(sorted)>> \o InsertRow(Tail(sorted), row)

RECURSIVE SortFrom(_, _)
SortFrom(sorted, rs) ==
  IF rs = <<>> THEN sorted
  ELSE SortFrom(InsertRow(sorted, Head(rs)), Tail(rs))

\* df.sort_values(...) on several columns: a stable sort
sort_values(rs) == SortFrom(<<>>, rs)

\* everything of a run but the service's data and the form
ReportFresh ==
  /\ group_guid = ""
  /\ page = 1
  /\ bitlinks = <<>>
  /\ links = <<>>
  /\ idx = 1
  /\ rows = <<>>
  /\ df = <<>>
  /\ errors = <<>>
  /\ warnings = <<>>
  /\ groupCalls = 0
  /\ listCalls = <<>>
  /\ clickCalls = <<>>
  /\ clickFailed = {}
  /\ groupOutcome = "none"
  /\ groupsSeen = <<>>
  /\ listOutcome = "none"

\* a short listing of varied records, any filter
ReportInit ==
  /\ \E urlsOf \in SeqsUpTo(ReportUrls, MaxLinks) :
       srvLinks = [n \in 1..Len(urlsOf) |-> LinkRecord(n, urlsOf[n])]
  /\ clickValues = {5, 9}
  /\ failBudget = MaxClickFail
  /\ prefilter \in FilterSets
  /\ reportPc = "form"
  /\ ReportFresh

\* a listing of several pages of like records
PagesInit ==
  /\ \E n \in LongLengths, u \in ReportUrls :
       srvLinks = [k \in 1..n |-> LinkRecord(k, u)]
  /\ clickValues = {5}
  /\ failBudget = 0
  /\ prefilter \in FilterSets
  /\ reportPc = "form"
  /\ ReportFresh

\* groups[-1]
LastGroup(groups) == groups[Len(groups)]

\* groups[0]
FirstGroup(groups) == groups[1]

\* the "Load Bitly Stats" button up to get_group_guid's return
LoadStats ==
  /\ reportPc = "form"
  /\ groupCalls' = groupCalls + 1
  /\ \E outcome \in CallOutcomes, groups \in GroupAnswers :
       /\ groupOutcome' = outcome
       /\ groupsSeen' = IF outcome = "ok" THEN groups ELSE <<>>
       /\ CASE outcome = "exception" ->
                 /\ reportPc' = "crashed"
                 /\ UNCHANGED <<group_guid, errors>>
            [] outcome = "status" ->
                 /\ errors' = Append(errors, "Could not load Bitly groups")
                 /\ reportPc' = "done"
                 /\ UNCHANGED group_guid
            [] outcome = "ok" /\ groups = <<>> ->
                 /\ errors' = Append(errors, "No Bitly groups found.")
                 /\ reportPc' = "done"
                 /\ UNCHANGED group_guid
            [] outcome = "ok" /\ groups # <<>> ->
                 /\ group_guid' = FirstGroup(groups)
                 /\ reportPc' = "listing"
                 /\ UNCHANGED errors
  /\ UNCHANGED <<srvLinks, clickValues, failBudget, prefilter, page, bitlinks,
                 links, idx, rows, df, warnings, listCalls, clickCalls,
                 clickFailed, listOutcome, utmVars, batchVars>>

\* get_all_bitlinks returning what it has gathered when a page is refused
ListingRefusedPartial(gathered) == gathered

\* what get_all_bitlinks returns when a page request is refused: return []
ListingRefused(gathered) == <<>>

\* render after get_all_bitlinks has returned ls
AfterListing(ls) ==
  /\ links' = ls
  /\ IF ls = <<>>
     THEN /\ warnings' = Append(warnings, "No Bitly links found.")
          /\ reportPc' = "done"
     ELSE /\ reportPc' = "loop"
          /\ UNCHANGED warnings

\* the loop stopping behind a page that is not longer than the page size
NoMorePagesAtFull(items) == Len(items) <= size

\* len(items) < size: no more pages
NoMorePages(items) == Len(items) < size

\* one iteration of get_all_bitlinks' loop, and render's code behind its return
FetchPage ==
  /\ reportPc = "listing"
  /\ listCalls' = Append(listCalls, <<group_guid, page>>)
  /\ \E outcome \in CallOutcomes :
       CASE outcome = "exception" ->
              /\ reportPc' = "crashed"
              /\ listOutcome' = "exception"
              /\ UNCHANGED <<bitlinks, page, links, warnings, errors>>
         [] outcome = "status" ->
              /\ errors' = Append(errors, "Bitly API error")
              /\ AfterListing(ListingRefused(bitlinks))
              /\ listOutcome' = "status"
              /\ UNCHANGED <<bitlinks, page>>
         [] outcome = "ok" ->
              LET items == ServerPage(srvLinks, page) IN
              /\ bitlinks' = bitlinks \o items
              /\ UNCHANGED errors
              /\ IF NoMorePages(items)
                 THEN /\ AfterListing(bitlinks')
                      /\ listOutcome' = "ok"
                      /\ UNCHANGED page
                 ELSE /\ page' = page + 1
                      /\ UNCHANGED <<reportPc, links, warnings, listOutcome>>
  /\ UNCHANGED <<srvLinks, clickValues, failBudget, prefilter, group_guid, idx,
                 rows, df, groupCalls, clickCalls, clickFailed, groupOutcome,
                 groupsSeen, utmVars, batchVars>>

\* render behind one iteration of the for loop that left rows as rs
AfterItem(rs) ==
  /\ rows' = rs
  /\ idx' = idx + 1
  /\ IF idx < Len(links)
     THEN UNCHANGED <<reportPc, df, warnings>>
     ELSE /\ reportPc' = "done"
          /\ IF rs = <<>>
             THEN /\ warnings' = Append(warnings, "No results match your filters.")
                  /\ UNCHANGED df
             ELSE /\ df' = sort_values(rs)
                  /\ UNCHANGED warnings

\* get_clicks answering 0 for a refused call
get_clicks(outcome, total) == IF outcome = "ok" THEN total ELSE 0

\* one iteration of render's for loop over links
ProcessItem ==
  /\ reportPc = "loop"
  /\ LET item == links[idx]
         bitlink_id == Replace(item.link, S_https, <<>>)
         utm == parse_utm_params(item.long_url)
     IN IF Skipped(prefilter, item.long_url)
        THEN /\ AfterItem(rows)
             /\ UNCHANGED <<clickCalls, clickFailed>>
        ELSE /\ clickCalls' = Append(clickCalls, bitlink_id)
             /\ \E outcome \in CallOutcomes, total \in clickValues :
                  CASE outcome = "exception" ->
                         /\ reportPc' = "crashed"
                         /\ clickFailed' = clickFailed \cup {bitlink_id}
                         /\ UNCHANGED <<rows, idx, df, warnings>>
                    [] outcome = "status" ->
                         /\ Cardinality(clickFailed) < failBudget
                         /\ clickFailed' = clickFailed \cup {bitlink_id}
                         /\ AfterItem(Append(rows,
                              [title |-> IF item.title = "" THEN "Untitled"
                                         ELSE item.title,
                               link |-> item.link,
                               long_url |-> item.long_url,
                               utm_source |-> utm.utm_source,
                               utm_medium |-> utm.utm_medium,
                               utm_campaign |-> utm.utm_campaign,
                               clicks |-> get_clicks(outcome, total)]))
                    [] outcome = "ok" ->
                         /\ UNCHANGED clickFailed
                         /\ AfterItem(Append(rows,
                              [title |-> IF item.title = "" THEN "Untitled"
                                         ELSE item.title,
                               link |-> item.link,
                               long_url |-> item.long_url,
                               utm_source |-> utm.utm_source,
                               utm_medium |-> utm.utm_medium,
                               utm_campaign |-> utm.utm_campaign,
                               clicks |-> get_clicks(outcome, total)]))
  /\ UNCHANGED <<srvLinks, clickValues, failBudget, prefilter, group_guid, page,
                 bitlinks, links, errors, groupCalls, listCalls, groupOutcome,
                 groupsSeen, listOutcome, utmVars, batchVars>>

ReportNext == LoadStats \/ FetchPage \/ ProcessItem

(***************************************************************************)
(* The specifications: each runs one flow and leaves the others idle.      *)
(***************************************************************************)
UtmIdle ==
  /\ base_url = <<>>
  /\ inPairs = <<>>
  /\ tracking = NoTracking
  /\ utmPc = "idle"
  /\ out1 = <<>>
  /\ out2 = <<>>

BatchIdle ==
  /\ urls_input = <<>>
  /\ b_tracking = NoTracking
  /\ batchPc = "idle"
  /\ urls = <<>>
  /\ bi = 1
  /\ results = <<>>
  /\ createCalls = <<>>
  /\ titleCalls = <<>>
  /\ titleFailed = {}

ReportIdle ==
  /\ srvLinks = <<>>
  /\ clickValues = {}
  /\ failBudget = 0
  /\ prefilter = [source |-> <<>>, medium |-> <<>>, campaign |-> <<>>]
  /\ reportPc = "idle"
  /\ ReportFresh

\* the report pipeline over a short listing of varied records
Init == ReportInit /\ UtmIdle /\ BatchIdle
Spec == Init /\ [][ReportNext]_vars

\* the report pipeline over a listing of several pages
InitPages == PagesInit /\ UtmIdle /\ BatchIdle
SpecPages == InitPages /\ [][ReportNext]_vars

\* build_utm_url applied once and twice
InitUtm == UtmInit /\ BatchIdle /\ ReportIdle
SpecUtm == InitUtm /\ [][UtmNext]_vars

\* the batch link-creation flow
InitBatch == BatchInit /\ UtmIdle /\ ReportIdle
SpecBatch == InitBatch /\ [][BatchNext]_vars

(***************************************************************************)
(* Properties of the report pipeline                                       *)
(***************************************************************************)
\* needle occurs in hay at some position
Occurs(needle, hay) ==
  \E k \in 1..(Len(hay) - Len(needle) + 1) :
    \A m \in 1..Len(needle) : hay[k + m - 1] = needle[m]

\* the URL holds the literal text name=text of every filter that is typed
LiteralMatch(f, long_url) ==
  /\ f.source # <<>> => Occurs(S_utm_source \o S_eq \o f.source, long_url)
  /\ f.medium # <<>> => Occurs(S_utm_medium \o S_eq \o f.medium, long_url)
  /\ f.campaign # <<>> => Occurs(S_utm_campaign \o S_eq \o f.campaign, long_url)

\* the bitlink ids of the records that pass every active filter, in order
RECURSIVE SurvivorIds(_)
SurvivorIds(ls) ==
  IF ls = <<>> THEN <<>>
  ELSE (IF LiteralMatch(prefilter, ls[1].long_url)
        THEN <<From(ls[1].link, Len(S_https) + 1)>> ELSE <<>>)
       \o SurvivorIds(Tail(ls))

IsPrefix(a, b) == Len(a) <= Len(b) /\ SubSeq(b, 1, Len(a)) = a

\* the run has ended, by a return or by an exception nothing catches
Ended == reportPc \in {"done", "crashed"}

\* an error reached the user: an st.error message, or the escaped exception
ErrorSurfaced == errors # <<>> \/ reportPc = "crashed"

\* the rows of the report, as (bitlink id, clicks)
Reported == {<<From(df[k].link, Len(S_https) + 1), df[k].clicks>> : k \in 1..Len(df)}

\* C1: the click-count call is never issued for a record that fails an active
\* filter, and is issued exactly once, in retrieval order, for each record
\* that passes them all.
C1_FilterBeforeFetch ==
  /\ IsPrefix(clickCalls, SurvivorIds(links))
  /\ (Ended /\ links # <<>>) => clickCalls = SurvivorIds(links)

\* C3: a surviving record whose click fetch failed (no answer, or a
\* non-success status) is in the report with 0 clicks, and every later
\* surviving record is fetched and reported too.
C3_ClickFailureTolerated ==
  (Ended /\ clickFailed # {}) =>
    /\ \A id \in clickFailed : <<id, 0>> \in Reported
    /\ clickCalls = SurvivorIds(links)
    /\ {r[1] : r \in Reported} = {clickCalls[k] : k \in 1..Len(clickCalls)}

\* group resolution failed: no answer, a non-success status, or no group
GroupFailed ==
  \/ groupOutcome \in {"status", "exception"}
  \/ groupOutcome = "ok" /\ groupsSeen = <<>>

C2_ListsEveryRecord ==
  /\ Len(listCalls) <= Len(srvLinks) \div size + 1
  /\ \A k \in 1..Len(listCalls) : listCalls[k][2] = k
  /\ listOutcome = "ok" =>
       /\ links = srvLinks
       /\ Len(listCalls) = Len(srvLinks) \div size + 1

\* C2 witness: a listing of exactly two full pages was returned, behind a
\* third, empty page
C2_Witness ==
  /\ listOutcome = "ok"
  /\ Len(srvLinks) = 2 * size
  /\ Len(links) = 2 * size
  /\ Len(listCalls) = 3

\* C5: when a page request is refused, whichever page it is, the run ends
\* with an error, without any report row, without a further page request
\* and without a click-count call; a listing that succeeds with no record
\* ends without an error.
C5_ListingFailureAborts ==
  /\ listOutcome = "status" =>
       /\ reportPc = "done"
       /\ errors # <<>>
       /\ links = <<>> /\ rows = <<>> /\ df = <<>>
       /\ Len(listCalls) = page
       /\ clickCalls = <<>>
  /\ (listOutcome = "ok" /\ links = <<>>) => (reportPc = "done" /\ errors = <<>>)

\* C5 witness: the second page was refused behind a full first page
C5_Witness ==
  /\ listOutcome = "status"
  /\ page = 2
  /\ Len(bitlinks) = size

\* the (source, medium, campaign) of a sorts strictly before that of b
TripleLess(a, b) ==
  \/ StrLess(a.utm_source, b.utm_source)
  \/ /\ a.utm_source = b.utm_source
     /\ \/ StrLess(a.utm_medium, b.utm_medium)
        \/ /\ a.utm_medium = b.utm_medium
           /\ StrLess(a.utm_campaign, b.utm_campaign)

SameTriple(a, b) ==
  /\ a.utm_source = b.utm_source
  /\ a.utm_medium = b.utm_medium
  /\ a.utm_campaign = b.utm_campaign

\* the position of the row of a link in a frame
PositionIn(frame, link) == CHOOSE k \in 1..Len(frame) : frame[k].link = link

\* C9: the shown frame is a permutation of the surviving rows, ascending by
\* (utm_source, utm_medium, utm_campaign), descending by clicks within one
\* triple, and rows equal on all four keys keep their retrieval order.
C9_Sorted ==
  (reportPc = "done" /\ rows # <<>>) =>
    /\ Len(df) = Len(rows)
    /\ \A i \in 1..Len(rows) : \E k \in 1..Len(df) : df[k] = rows[i]
    /\ \A i, j \in 1..Len(df) :
         i < j =>
           /\ ~TripleLess(df[j], df[i])
           /\ SameTriple(df[i], df[j]) => df[i].clicks >= df[j].clicks
    /\ \A i, j \in 1..Len(rows) :
         (i < j /\ SameTriple(rows[i], rows[j]) /\ rows[i].clicks = rows[j].clicks)
           => PositionIn(df, rows[i].link) < PositionIn(df, rows[j].link)

\* C9 witness: three rows were sorted, two of them of one triple and fetched
\* in ascending order of clicks, and one of a triple that sorts before theirs
C9_Witness ==
  /\ reportPc = "done"
  /\ Len(df) = 3
  /\ \E i, j, k \in 1..Len(rows) :
       /\ i < j /\ j < k
       /\ SameTriple(rows[i], rows[j])
       /\ rows[i].clicks < rows[j].clicks
       /\ TripleLess(rows[k], rows[i])

\* the URL has a query parameter of that name
HasParam(long_url, name) ==
  HasKey(parse_qsl(urlparse(long_url).query, TRUE), name)

\* the record of the listing is in the report
InReport(item) == \E k \in 1..Len(rows) : rows[k].link = item.link

\* C10 as claimed: a record whose URL contains utm_source=foo passes the
\* source filter foo and fails the source filter bar, and a record without
\* the parameter fails every non-empty filter on it (medium and campaign
\* alike).
C10_AsClaimed ==
  (reportPc = "done" /\ links # <<>>) =>
    \A n \in 1..Len(links) :
      LET item == links[n]
          only == [source |-> prefilter.source, medium |-> <<>>, campaign |-> <<>>]
      IN /\ (prefilter = only /\ prefilter.source = S_foo
               /\ Occurs(S_utm_source \o S_eq \o S_foo, item.long_url))
              => InReport(item)
         /\ (prefilter.source = S_bar
               /\ Occurs(S_utm_source \o S_eq \o S_foo, item.long_url))
              => ~InReport(item)
         /\ (prefilter.source # <<>> /\ ~HasParam(item.long_url, S_utm_source))
              => ~InReport(item)
         /\ (prefilter.medium # <<>> /\ ~HasParam(item.long_url, S_utm_medium))
              => ~InReport(item)
         /\ (prefilter.campaign # <<>> /\ ~HasParam(item.long_url, S_utm_campaign))
              => ~InReport(item)

\* C10 amended: a record is reported exactly when its URL holds, anywhere,
\* the literal text <parameter>=<filter text> of every filter that is typed.
C10_LiteralSubstring ==
  (reportPc = "done" /\ links # <<>>) =>
    \A n \in 1..Len(links) :
      InReport(links[n]) <=> LiteralMatch(prefilter, links[n].long_url)

\* C10 witness: under the source filter foo a record without any utm_source
\* parameter, whose URL holds the text in another parameter's name, is
\* reported, and a record with utm_source=bar is not
C10_Witness ==
  /\ reportPc = "done"
  /\ prefilter.source = S_foo
  /\ \E n, m \in 1..Len(links) :
       /\ ~HasParam(links[n].long_url, S_utm_source)
       /\ InReport(links[n])
       /\ HasParam(links[m].long_url, S_utm_source)
       /\ ~InReport(links[m])

=============================================================================
